---- MODULE Spec2Model ----
(***************************************************************************)
(* Model of the particle simulation of src/src/main.rs: the physics        *)
(* integrator (Particle, ParticleSimulation) and the GPU resource and      *)
(* frame lifecycle (State::new/resize/update/render and the event loop of  *)
(* main).                                                                  *)
(*                                                                         *)
(* Numbers.  The program computes in f32.  The model computes in fixed     *)
(* point: the integer n stands for the real n / Scale, and every product   *)
(* is rounded to the nearest representable value, symmetrically in the     *)
(* sign, as an f32 product is.  u32 values (window sizes) are plain        *)
(* integers and are converted with ToF32, as the code does with `as f32`.  *)
(***************************************************************************)
EXTENDS Integers, Sequences, FiniteSets, TLC

\* ---------------------------------------------------------------- bounds

\* Number of redraw ticks explored.
MaxTicks == 2

\* ------------------------------------------------------ program constants

\* const NUM_PARTICLES: usize = 5000, explored with a small store.
NUM_PARTICLES == 2

\* Resolution of the fixed-point stand-in for f32.
Scale == 100

\* const PARTICLE_SIZE: f32 = 3.0
PARTICLE_SIZE == 300

\* const GRAVITY: Vec2 = Vec2::new(0.0, 9.8)
GRAVITY == [x |-> 0, y |-> 980]

\* const BOUNCE_DAMPING: f32 = 0.7
BOUNCE_DAMPING == 70

\* const INITIAL_VELOCITY_RANGE: f32 = 50.0
INITIAL_VELOCITY_RANGE == 5000

\* ------------------------------------------------------------ arithmetic

Abs(n) == IF n < 0 THEN 0 - n ELSE n

\* n / d rounded to the nearest integer, halves away from zero.
Round(n, d) ==
    LET q == (2 * Abs(n) + d) \div (2 * d)
    IN  IF n < 0 THEN 0 - q ELSE q

\* f32 product a * b.
Mul(a, b) == Round(a * b, Scale)

\* u32 `as f32`.
ToF32(u) == u * Scale

\* Vec2 * f32 and Vec2 + Vec2 (glam).
Vec2_scale(v, k) == [x |-> Mul(v.x, k), y |-> Mul(v.y, k)]
Vec2_add(a, b) == [x |-> a.x + b.x, y |-> a.y + b.y]

\* -------------------------------------------------------------- Particle

\* let radius = PARTICLE_SIZE / 2.0
Radius == PARTICLE_SIZE \div 2

Particle_new(position, velocity, color) ==
    [position |-> position, velocity |-> velocity, color |-> color]

\* self.velocity += GRAVITY * dt
ApplyGravity_IgnoresDt(p, dt) ==
    [p EXCEPT !.velocity = Vec2_add(p.velocity, GRAVITY)]
ApplyGravity(p, dt) ==
    [p EXCEPT !.velocity = Vec2_add(p.velocity, Vec2_scale(GRAVITY, dt))]

\* self.position += self.velocity * dt
Advance(p, dt) ==
    [p EXCEPT !.position = Vec2_add(p.position, Vec2_scale(p.velocity, dt))]

\* if self.position.y + radius > height { ... }
BottomFires(p, height) == p.position.y + Radius > height
BottomBoundary_Elastic(p, height) ==
    IF BottomFires(p, height)
    THEN [p EXCEPT !.position.y = height - Radius,
                   !.velocity.y = 0 - p.velocity.y]
    ELSE p
BottomBoundary(p, height) ==
    IF BottomFires(p, height)
    THEN [p EXCEPT !.position.y = height - Radius,
                   !.velocity.y = Mul(0 - p.velocity.y, BOUNCE_DAMPING)]
    ELSE p

\* if self.position.y - radius < 0.0 { ... }
TopFires_Inclusive(p) == p.position.y - Radius <= 0
TopFires(p) == p.position.y - Radius < 0
TopBoundary_NoClamp(p) ==
    IF TopFires(p)
    THEN [p EXCEPT !.velocity.y = Mul(0 - p.velocity.y, BOUNCE_DAMPING)]
    ELSE p
TopBoundary(p) ==
    IF TopFires(p)
    THEN [p EXCEPT !.position.y = Radius,
                   !.velocity.y = Mul(0 - p.velocity.y, BOUNCE_DAMPING)]
    ELSE p

\* if self.position.x + radius > width { ... }
RightFires(p, width) == p.position.x + Radius > width
RightBoundary_ReflectsY(p, width) ==
    IF RightFires(p, width)
    THEN [p EXCEPT !.position.x = width - Radius,
                   !.velocity.y = Mul(0 - p.velocity.y, BOUNCE_DAMPING)]
    ELSE p
RightBoundary(p, width) ==
    IF RightFires(p, width)
    THEN [p EXCEPT !.position.x = width - Radius,
                   !.velocity.x = Mul(0 - p.velocity.x, BOUNCE_DAMPING)]
    ELSE p

\* if self.position.x - radius < 0.0 { ... }
LeftFires(p) == p.position.x - Radius < 0
LeftBoundary(p) ==
    IF LeftFires(p)
    THEN [p EXCEPT !.position.x = Radius,
                   !.velocity.x = Mul(0 - p.velocity.x, BOUNCE_DAMPING)]
    ELSE p

\* Particle::update(&mut self, dt, width, height)
Particle_update_PositionFirst(p, dt, width, height) ==
    LET moved == ApplyGravity(Advance(p, dt), dt)
    IN  LeftBoundary(RightBoundary(TopBoundary(BottomBoundary(moved, height)), width))
Particle_update(p, dt, width, height) ==
    LET moved == Advance(ApplyGravity(p, dt), dt)
    IN  LeftBoundary(RightBoundary(TopBoundary(BottomBoundary(moved, height)), width))

\* Particle::to_instance(&self)
Particle_to_instance(p) ==
    [position |-> <<p.position.x, p.position.y>>, color |-> p.color]

\* ---------------------------------------------------- ParticleSimulation

\* Outcomes of the thread rng explored: each draw gives, for one particle, the
\* seven uniform samples in [0, 1) behind the seven gen_range calls; the
\* lowest and the highest samples.
RngDraws ==
    { [ux |-> 0,  uy |-> 0,  uvx |-> 0,  uvy |-> 0,  ur |-> 0,  ug |-> 0,  ub |-> 0],
      [ux |-> 99, uy |-> 99, uvx |-> 99, uvy |-> 99, ur |-> 99, ug |-> 99, ub |-> 99] }

\* rng.gen_range(lo..hi) for the uniform sample u: a value of [lo, hi).
GenRange_Inclusive(lo, hi, u) == lo + ((hi - lo) * (u + 1)) \div Scale
GenRange(lo, hi, u) == lo + ((hi - lo) * u) \div Scale

\* One iteration of the loop of ParticleSimulation::new.
RandomParticle(d, width, height) ==
    Particle_new(
        [x |-> GenRange(0, width, d.ux), y |-> GenRange(0, height, d.uy)],
        [x |-> GenRange(0 - INITIAL_VELOCITY_RANGE, INITIAL_VELOCITY_RANGE, d.uvx),
         y |-> GenRange(0 - INITIAL_VELOCITY_RANGE, INITIAL_VELOCITY_RANGE, d.uvy)],
        << GenRange(30, 100, d.ur), GenRange(30, 100, d.ug),
           GenRange(30, 100, d.ub), 100 >>)

\* ParticleSimulation::new(width, height): the stores the rng can produce.
ParticleSimulation_new_OneShort(width, height) ==
    { [particles |-> ps] :
        ps \in [1..(NUM_PARTICLES - 1) ->
                    {RandomParticle(d, width, height) : d \in RngDraws}] }
ParticleSimulation_new(width, height) ==
    { [particles |-> ps] :
        ps \in [1..NUM_PARTICLES -> {RandomParticle(d, width, height) : d \in RngDraws}] }

\* ParticleSimulation::update(&mut self, dt, width, height)
ParticleSimulation_update(sim, dt, width, height) ==
    [sim EXCEPT !.particles =
        [i \in DOMAIN sim.particles |-> Particle_update(sim.particles[i], dt, width, height)]]

\* ParticleSimulation::get_instance_data(&self)
ParticleSimulation_get_instance_data_Reversed(sim) ==
    [i \in DOMAIN sim.particles |->
        Particle_to_instance(sim.particles[Len(sim.particles) + 1 - i])]
ParticleSimulation_get_instance_data(sim) ==
    [i \in DOMAIN sim.particles |-> Particle_to_instance(sim.particles[i])]

\* ----------------------------------------------------------------- State

\* One call made by the running event handler, in program order.
Call(op, arg) == [op |-> op, arg |-> arg]

\* Sizes the window system reports in Resized and ScaleFactorChanged (winit
\* PhysicalSize<u32>): the window is shrunk or minimized.
WindowSizes ==
    { [width |-> 4, height |-> 2], [width |-> 2, height |-> 5],
      [width |-> 0, height |-> 600], [width |-> 800, height |-> 0] }

\* surface.get_capabilities(&adapter).formats of the adapters explored.
SurfaceCaps ==
    { << "Bgra8Unorm", "Bgra8UnormSrgb" >>, << "Rgba8Unorm" >> }

IsSrgb(f) == f \in {"Bgra8UnormSrgb", "Rgba8UnormSrgb"}

\* The adapters that offer an sRGB format, and those that offer none.
SrgbCaps == {fs \in SurfaceCaps : \E i \in DOMAIN fs : IsSrgb(fs[i])}
PlainCaps == SurfaceCaps \ SrgbCaps

\* formats.iter().copied().find(|f| f.is_srgb()).unwrap_or(formats[0])
SurfaceFormat(formats) ==
    IF \E i \in DOMAIN formats : IsSrgb(formats[i])
    THEN formats[CHOOSE i \in DOMAIN formats :
                    /\ IsSrgb(formats[i])
                    /\ \A j \in DOMAIN formats : IsSrgb(formats[j]) => i <= j]
    ELSE formats[1]

\* Results of surface.get_current_texture().
AcquireResults == {"Ok", "Lost", "OutOfMemory", "Timeout", "Outdated"}

\* Frame times (seconds, fixed point): 0 and 1.
DtSet == {0, 100}

\* The pipeline of State::new: shader.wgsl as it is, for the format of config.
InitialPipeline(config) ==
    [shader |-> "shader.wgsl", format |-> config.format, constants |-> << >>]

\* The pipeline of State::resize: shader_code.wgsl with PARTICLE_SIZE,
\* SCREEN_WIDTH and SCREEN_HEIGHT substituted, for the format of config.
ResizedPipeline(config, new_size) ==
    [shader |-> "shader_code.wgsl", format |-> config.format,
     constants |-> << PARTICLE_SIZE, ToF32(new_size.width), ToF32(new_size.height) >>]

\* State::new(window) for a window of the given inner size, an adapter with
\* the given formats and one outcome of ParticleSimulation::new.
State_new(size, formats, simulation) ==
    LET config == [usage |-> "RENDER_ATTACHMENT", format |-> SurfaceFormat(formats),
                   width |-> size.width, height |-> size.height,
                   present_mode |-> "Fifo", alpha_mode |-> "Auto"]
        instance_data == ParticleSimulation_get_instance_data(simulation)
        pipeline == InitialPipeline(config)
    IN  [size |-> size,
         config |-> config,
         render_pipeline |-> pipeline,
         simulation |-> simulation,
         instance_buffer |-> [label |-> "Particle Instance Buffer",
                              capacity |-> Len(instance_data),
                              contents |-> instance_data],
         calls |-> << Call("surface.configure", config),
                      Call("simulation.get_instance_data", instance_data),
                      Call("device.create_buffer_init", instance_data),
                      Call("device.create_render_pipeline", pipeline) >>]

\* State::resize(&mut self, new_size)
State_resize_KeepsPipeline(s0, new_size) ==
    LET s == [s0 EXCEPT !.calls = s0.calls \o << Call("State::resize", new_size) >>]
    IN
    IF new_size.width > 0 /\ new_size.height > 0
    THEN LET config == [s.config EXCEPT !.width = new_size.width,
                                        !.height = new_size.height]
         IN  [s EXCEPT !.size = new_size,
                       !.config = config,
                       !.calls = s.calls \o << Call("surface.configure", config) >>]
    ELSE s
State_resize_EitherNonZero(s0, new_size) ==
    LET s == [s0 EXCEPT !.calls = s0.calls \o << Call("State::resize", new_size) >>]
    IN
    IF new_size.width > 0 \/ new_size.height > 0
    THEN LET config == [s.config EXCEPT !.width = new_size.width,
                                        !.height = new_size.height]
             pipeline == ResizedPipeline(config, new_size)
         IN  [s EXCEPT !.size = new_size,
                       !.config = config,
                       !.render_pipeline = pipeline,
                       !.calls = s.calls \o
                           << Call("surface.configure", config),
                              Call("device.create_render_pipeline", pipeline) >>]
    ELSE s
State_resize_ForgetsSize(s0, new_size) ==
    LET s == [s0 EXCEPT !.calls = s0.calls \o << Call("State::resize", new_size) >>]
    IN
    IF new_size.width > 0 /\ new_size.height > 0
    THEN LET config == [s.config EXCEPT !.width = new_size.width,
                                        !.height = new_size.height]
             pipeline == ResizedPipeline(config, new_size)
         IN  [s EXCEPT !.config = config,
                       !.render_pipeline = pipeline,
                       !.calls = s.calls \o
                           << Call("surface.configure", config),
                              Call("device.create_render_pipeline", pipeline) >>]
    ELSE s
State_resize_ClampsStore(s0, new_size) ==
    LET s == [s0 EXCEPT !.calls = s0.calls \o << Call("State::resize", new_size) >>]
    IN
    IF new_size.width > 0 /\ new_size.height > 0
    THEN LET config == [s.config EXCEPT !.width = new_size.width,
                                        !.height = new_size.height]
             pipeline == ResizedPipeline(config, new_size)
         IN  [s EXCEPT !.size = new_size,
                       !.config = config,
                       !.render_pipeline = pipeline,
                       !.simulation = ParticleSimulation_update(
                           s.simulation, 0, ToF32(new_size.width), ToF32(new_size.height)),
                       !.calls = s.calls \o
                           << Call("surface.configure", config),
                              Call("device.create_render_pipeline", pipeline) >>]
    ELSE s
State_resize(s0, new_size) ==
    LET s == [s0 EXCEPT !.calls = s0.calls \o << Call("State::resize", new_size) >>]
    IN
    IF new_size.width > 0 /\ new_size.height > 0
    THEN LET config == [s.config EXCEPT !.width = new_size.width,
                                        !.height = new_size.height]
             pipeline == ResizedPipeline(config, new_size)
         IN  [s EXCEPT !.size = new_size,
                       !.config = config,
                       !.render_pipeline = pipeline,
                       !.calls = s.calls \o
                           << Call("surface.configure", config),
                              Call("device.create_render_pipeline", pipeline) >>]
    ELSE s

\* queue.write_buffer(&buffer, 0, data): overwrites the first Len(data)
\* elements; a write past the end of the buffer is rejected by validation.
Queue_write_buffer(buffer, data) ==
    IF Len(data) <= buffer.capacity
    THEN [buffer EXCEPT !.contents =
            data \o SubSeq(buffer.contents, Len(data) + 1, Len(buffer.contents))]
    ELSE buffer

\* State::update(&mut self, dt)
State_update_ProjectsFirst(s, dt) ==
    LET instance_data == ParticleSimulation_get_instance_data(s.simulation)
        simulation == ParticleSimulation_update(
                          s.simulation, dt, ToF32(s.size.width), ToF32(s.size.height))
    IN  [s EXCEPT !.simulation = simulation,
                  !.instance_buffer = Queue_write_buffer(s.instance_buffer, instance_data),
                  !.calls = s.calls \o
                      << Call("State::update", dt),
                         Call("simulation.get_instance_data", instance_data),
                         Call("simulation.update", dt),
                         Call("queue.write_buffer", instance_data) >>]
State_update(s, dt) ==
    LET simulation == ParticleSimulation_update(
                          s.simulation, dt, ToF32(s.size.width), ToF32(s.size.height))
        instance_data == ParticleSimulation_get_instance_data(simulation)
    IN  [s EXCEPT !.simulation = simulation,
                  !.instance_buffer = Queue_write_buffer(s.instance_buffer, instance_data),
                  !.calls = s.calls \o
                      << Call("State::update", dt),
                         Call("simulation.update", dt),
                         Call("simulation.get_instance_data", instance_data),
                         Call("queue.write_buffer", instance_data) >>]

\* State::render(&mut self) when get_current_texture returns acquired.
State_render(s, acquired) ==
    IF acquired = "Ok"
    THEN [result |-> "Ok",
          state |-> [s EXCEPT !.calls = s.calls \o
              << Call("State::render", << >>),
                 Call("surface.get_current_texture", "Ok"),
                 Call("render_pass.draw",
                      [pipeline |-> s.render_pipeline,
                       vertices |-> 6,
                       instances |-> NUM_PARTICLES,
                       instance_buffer |-> s.instance_buffer]),
                 Call("queue.submit", "Render Encoder"),
                 Call("output.present", "frame") >>]]
    ELSE [result |-> acquired,
          state |-> [s EXCEPT !.calls = s.calls \o
              << Call("State::render", << >>),
                 Call("surface.get_current_texture", acquired) >>]]

\* ------------------------------------------------------------------ main

VARIABLES
    size,             \* State.size
    config,           \* State.config
    render_pipeline,  \* State.render_pipeline
    simulation,       \* State.simulation
    instance_buffer,  \* State.instance_buffer
    control_flow,     \* *control_flow of the event loop
    calls,            \* the calls the last event handler run made, in order
    reconfigured,     \* history: State::resize has accepted a size
    ticks             \* number of RedrawRequested events handled

vars == << size, config, render_pipeline, simulation, instance_buffer,
           control_flow, calls, reconfigured, ticks >>

\* The State value the handlers work on, with an empty call record.
Self ==
    [size |-> size, config |-> config, render_pipeline |-> render_pipeline,
     simulation |-> simulation, instance_buffer |-> instance_buffer,
     calls |-> << >>]

HasCall(cs, op) == \E i \in DOMAIN cs : cs[i].op = op

\* The handler run leaves the State value s.
Leave(s) ==
    /\ size' = s.size
    /\ config' = s.config
    /\ render_pipeline' = s.render_pipeline
    /\ simulation' = s.simulation
    /\ instance_buffer' = s.instance_buffer
    /\ calls' = s.calls
    /\ reconfigured' = (reconfigured \/ HasCall(s.calls, "surface.configure"))

\* .with_inner_size(winit::dpi::PhysicalSize::new(800, 600))
RequestedSize == [width |-> 800, height |-> 600]

\* main up to event_loop.run: the window is built with the size main asks
\* for and State::new runs, on an adapter that offers an sRGB format.
Init ==
    \E formats \in SrgbCaps :
        /\ \E sim \in ParticleSimulation_new(ToF32(RequestedSize.width),
                                             ToF32(RequestedSize.height)) :
            LET s == State_new(RequestedSize, formats, sim)
            IN  /\ size = s.size
                /\ config = s.config
                /\ render_pipeline = s.render_pipeline
                /\ simulation = s.simulation
                /\ instance_buffer = s.instance_buffer
                /\ calls = s.calls
        /\ control_flow = "Poll"
        /\ reconfigured = FALSE
        /\ ticks = 0

\* Err(e) => eprintln!("{:?}", e)
Logged(s, e) == [s EXCEPT !.calls = s.calls \o << Call("eprintln", e) >>]

\* The match on state.render() in the RedrawRequested arm.
OnRenderResult_LostIsLogged(r, cf) ==
    CASE r.result = "Ok" -> [state |-> r.state, control_flow |-> cf]
      [] r.result = "OutOfMemory" -> [state |-> r.state, control_flow |-> "Exit"]
      [] OTHER -> [state |-> Logged(r.state, r.result), control_flow |-> cf]
OnRenderResult_OutOfMemoryIsLogged(r, cf) ==
    CASE r.result = "Ok" -> [state |-> r.state, control_flow |-> cf]
      [] r.result = "Lost" ->
            [state |-> State_resize(r.state, r.state.size), control_flow |-> cf]
      [] OTHER -> [state |-> Logged(r.state, r.result), control_flow |-> cf]
OnRenderResult_ErrorsExit(r, cf) ==
    CASE r.result = "Ok" -> [state |-> r.state, control_flow |-> cf]
      [] r.result = "Lost" ->
            [state |-> State_resize(r.state, r.state.size), control_flow |-> cf]
      [] OTHER -> [state |-> Logged(r.state, r.result), control_flow |-> "Exit"]
OnRenderResult(r, cf) ==
    CASE r.result = "Ok" -> [state |-> r.state, control_flow |-> cf]
      [] r.result = "Lost" ->
            [state |-> State_resize(r.state, r.state.size), control_flow |-> cf]
      [] r.result = "OutOfMemory" -> [state |-> r.state, control_flow |-> "Exit"]
      [] OTHER -> [state |-> Logged(r.state, r.result), control_flow |-> cf]

\* The event loop hands the closure events until control_flow is Exit.
Running == control_flow # "Exit"

\* WindowEvent::CloseRequested, or Escape pressed
CloseRequested ==
    /\ Running
    /\ control_flow' = "Exit"
    /\ calls' = << >>
    /\ UNCHANGED << size, config, render_pipeline, simulation, instance_buffer,
                    reconfigured, ticks >>

\* WindowEvent::Resized(physical_size)
Resized ==
    /\ Running
    /\ \E physical_size \in WindowSizes :
        Leave(State_resize(Self, physical_size))
    /\ UNCHANGED << control_flow, ticks >>

\* WindowEvent::ScaleFactorChanged { new_inner_size, .. }
ScaleFactorChanged ==
    /\ Running
    /\ \E new_inner_size \in WindowSizes :
        Leave(State_resize(Self, new_inner_size))
    /\ UNCHANGED << control_flow, ticks >>

\* Event::RedrawRequested: dt is the time since the last redraw.
RedrawRequested ==
    /\ Running
    /\ ticks < MaxTicks
    /\ \E dt \in DtSet, acquired \in AcquireResults :
        LET updated == State_update(Self, dt)
            after == OnRenderResult(State_render(updated, acquired), control_flow)
        IN  /\ Leave(after.state)
            /\ control_flow' = after.control_flow
    /\ ticks' = ticks + 1

Next ==
    \/ CloseRequested
    \/ Resized
    \/ ScaleFactorChanged
    \/ RedrawRequested

Spec == Init /\ [][Next]_vars

\* ------------------------------------------------- stores given explicitly

\* Particles handed to Particle::new directly, as a test of the integrator
\* builds them: the particle of the worked scenario, one in free flight and
\* one about to leave through the bottom right corner.
GivenParticles ==
    { Particle_new([x |-> 1000, y |-> 1000], [x |-> 0, y |-> -10000],
                   << 50, 50, 50, 100 >>),
      Particle_new([x |-> 40000, y |-> 30000], [x |-> 2000, y |-> -2500],
                   << 30, 60, 90, 100 >>),
      Particle_new([x |-> 79800, y |-> 59800], [x |-> 3000, y |-> 100],
                   << 99, 30, 30, 100 >>) }

\* main with the 800 x 600 window it asks for and a store of given particles
\* in place of the outcome of the rng, on an adapter that offers no sRGB
\* format.
GivenInit ==
    \E formats \in PlainCaps :
        \E ps \in [1..NUM_PARTICLES -> GivenParticles] :
            LET s == State_new(RequestedSize, formats, [particles |-> ps])
            IN  /\ size = s.size
                /\ config = s.config
                /\ render_pipeline = s.render_pipeline
                /\ simulation = s.simulation
                /\ instance_buffer = s.instance_buffer
                /\ calls = s.calls
                /\ control_flow = "Poll"
                /\ reconfigured = FALSE
                /\ ticks = 0

GivenSpec == GivenInit /\ [][Next]_vars

\* ================================================================ claims

Particles == simulation.particles
Width == ToF32(size.width)
Height == ToF32(size.height)

\* The last event handled was a redraw: State::update ran.
Updated == calls # << >> /\ calls[1].op = "State::update"
LastDt == calls[1].arg

InsideX(p, width) == Radius <= p.position.x /\ p.position.x <= width - Radius
InsideY(p, height) == Radius <= p.position.y /\ p.position.y <= height - Radius

\* C1 as stated: after every update every particle lies in
\* [radius, width - radius] x [radius, height - radius], for every size the
\* program accepts.
C1_Containment ==
    Updated => \A i \in DOMAIN Particles :
        InsideX(Particles[i], Width) /\ InsideY(Particles[i], Height)

\* C1 amended: after every update, on each axis whose dimension is at least
\* PARTICLE_SIZE (= 2 * radius) every particle lies in
\* [radius, dimension - radius]; on a narrower axis it lies at radius.
C1_ContainmentWhereItFits ==
    Updated => \A i \in DOMAIN Particles :
        /\ IF Width >= PARTICLE_SIZE
           THEN InsideX(Particles[i], Width)
           ELSE Particles[i].position.x = Radius
        /\ IF Height >= PARTICLE_SIZE
           THEN InsideY(Particles[i], Height)
           ELSE Particles[i].position.y = Radius

\* A redraw with dt > 0 has clamped a particle to the right and to the bottom
\* wall of an area it fits in, and reflected it.
C1_Witness ==
    /\ Updated /\ LastDt > 0
    /\ Width >= PARTICLE_SIZE /\ Height >= PARTICLE_SIZE
    /\ \E i \in DOMAIN Particles :
        /\ Particles[i].position.x = Width - Radius
        /\ Particles[i].position.y = Height - Radius
        /\ Particles[i].velocity.x < 0
        /\ Particles[i].velocity.y < 0

\* Particle::update(0, width, height) changes neither position nor velocity of p.
ZeroDtNoOp(p) ==
    LET q == Particle_update(p, 0, Width, Height)
    IN  q.position = p.position /\ q.velocity = p.velocity

\* C2 as stated: in every reachable state, also directly after
\* initialization and after a resize, update with dt = 0 leaves every
\* particle's position and velocity unchanged.
C2_ZeroDtNoOp == \A i \in DOMAIN Particles : ZeroDtNoOp(Particles[i])

\* C2 amended: update with dt = 0 leaves position and velocity unchanged for
\* every particle that lies within [radius, width - radius] x
\* [radius, height - radius], i.e. for which no boundary condition holds.
C2_ZeroDtNoOpInside ==
    \A i \in DOMAIN Particles :
        (InsideX(Particles[i], Width) /\ InsideY(Particles[i], Height))
            => ZeroDtNoOp(Particles[i])

\* A redraw with dt = 0 has run on a moving particle that lies inside.
C2_Witness ==
    /\ Updated /\ LastDt = 0 /\ ticks = 2
    /\ \E i \in DOMAIN Particles :
        /\ InsideX(Particles[i], Width) /\ InsideY(Particles[i], Height)
        /\ Particles[i].velocity.x # 0 /\ Particles[i].velocity.y # 0

\* The bottom condition holds for p after gravity and the advance of a step
\* of dt, and the top condition does not fire in that step.
BottomOnly(p, dt) ==
    LET moved == Advance(ApplyGravity(p, dt), dt)
    IN  /\ moved.position.y + Radius > Height
        /\ ~ TopFires(BottomBoundary(moved, Height))

\* C3: whenever the bottom condition holds before the clamp of a step and the
\* top condition does not fire in it, the step leaves position.y at
\* height - radius and velocity.y at -BOUNCE_DAMPING times the velocity.y
\* after gravity (to the rounding of one product), with the opposite sign.
C3_BottomBounce ==
    \A i \in DOMAIN Particles : \A dt \in DtSet :
        BottomOnly(Particles[i], dt) =>
            LET vy == Particles[i].velocity.y + Mul(GRAVITY.y, dt)
                q == Particle_update(Particles[i], dt, Width, Height)
            IN  /\ q.position.y = Height - Radius
                /\ 2 * Abs(Scale * q.velocity.y + BOUNCE_DAMPING * vy) <= Scale
                /\ (vy > 0 => q.velocity.y < 0)
                /\ (vy < 0 => q.velocity.y > 0)

\* After a redraw and a shrinking resize, a particle inside the area moves
\* down and crosses the bottom wall in a step of dt > 0, and another lies
\* below the bottom wall and moves up.
C3_Witness ==
    /\ ticks > 0
    /\ \E i \in DOMAIN Particles : \E dt \in DtSet :
        /\ dt > 0 /\ BottomOnly(Particles[i], dt)
        /\ Particles[i].position.y + Radius <= Height
    /\ \E i \in DOMAIN Particles :
        /\ BottomOnly(Particles[i], 0)
        /\ Particles[i].velocity.y < 0

\* ---------------------------------------------------- calls of a handler

\* Positions of the calls of op in the call record cs.
CallsOf(cs, op) == {i \in DOMAIN cs : cs[i].op = op}

\* The handler that left cs was a redraw whose frame acquisition returned r.
AcquiredAs(cs, r) ==
    \E i \in DOMAIN cs : cs[i] = Call("surface.get_current_texture", r)

\* The handler that left cs drew, submitted or presented.
Drew(cs) ==
    \E i \in DOMAIN cs :
        cs[i].op \in {"render_pass.draw", "queue.submit", "output.present"}

\* The constants State::resize substitutes for the given dimensions.
ConstantsFor(width, height) == << PARTICLE_SIZE, ToF32(width), ToF32(height) >>

\* C4: every draw issued after State::resize has accepted a size binds the
\* current pipeline, and that pipeline was built by State::resize for the
\* width, height and format the surface configuration has at the draw.
C4_NoStalePipeline ==
    \A i \in CallsOf(calls, "render_pass.draw") :
        reconfigured =>
            /\ calls[i].arg.pipeline = render_pipeline
            /\ calls[i].arg.pipeline.shader = "shader_code.wgsl"
            /\ calls[i].arg.pipeline.constants = ConstantsFor(config.width, config.height)
            /\ calls[i].arg.pipeline.format = config.format

\* A frame is drawn in the second tick, after a resize was accepted.
C4_Witness ==
    /\ reconfigured /\ ticks = 2
    /\ CallsOf(calls, "render_pass.draw") # {}
    /\ size = [width |-> 4, height |-> 2]

\* C5: a redraw whose frame acquisition fails with Lost draws, submits and
\* presents nothing; after the failed acquisition it calls State::resize with
\* the stored size, which reconfigures the surface and rebuilds the pipeline
\* for that size within the same handler run; size and configuration are as
\* before the redraw.
C5_LostRecovery ==
    [][ (ticks' = ticks + 1 /\ AcquiredAs(calls', "Lost")) =>
            LET n == Len(calls')
            IN  /\ ~ Drew(calls')
                /\ calls'[n - 3] = Call("surface.get_current_texture", "Lost")
                /\ calls'[n - 2] = Call("State::resize", size)
                /\ calls'[n - 1] = Call("surface.configure", config)
                /\ calls'[n] = Call("device.create_render_pipeline", render_pipeline')
                /\ render_pipeline'.shader = "shader_code.wgsl"
                /\ render_pipeline'.constants = ConstantsFor(size.width, size.height)
                /\ render_pipeline'.format = config.format
                /\ size' = size
                /\ config' = config ]_vars

\* The first redraw lost the surface: the pipeline of State::new has been
\* replaced by the recovery.
C5_Witness ==
    /\ ticks = 1
    /\ AcquiredAs(calls, "Lost")
    /\ render_pipeline.shader = "shader_code.wgsl"
    /\ size = [width |-> 800, height |-> 600]

\* The instance buffer is the one State::new created.
SameBuffer(a, b) == a.label = b.label /\ a.capacity = b.capacity

\* C6: the store holds NUM_PARTICLES particles, the instance buffer has that
\* capacity and that many elements, every upload writes that many instances
\* and every draw is issued for that many; no buffer is created after
\* State::new and the capacity never changes.
C6_FixedCount ==
    /\ [](/\ Len(Particles) = NUM_PARTICLES
          /\ instance_buffer.capacity = NUM_PARTICLES
          /\ Len(instance_buffer.contents) = NUM_PARTICLES
          /\ \A i \in CallsOf(calls, "queue.write_buffer") :
                Len(calls[i].arg) = NUM_PARTICLES
          /\ \A i \in CallsOf(calls, "render_pass.draw") :
                /\ calls[i].arg.instances = Len(Particles)
                /\ calls[i].arg.instances = calls[i].arg.instance_buffer.capacity
          /\ (CallsOf(calls, "device.create_buffer_init") # {} =>
                ticks = 0 /\ ~ reconfigured))
    /\ [][SameBuffer(instance_buffer, instance_buffer')]_vars

\* A frame is drawn in the second tick, after an accepted resize.
C6_Witness ==
    /\ ticks = 2 /\ reconfigured
    /\ CallsOf(calls, "queue.write_buffer") # {}
    /\ CallsOf(calls, "render_pass.draw") # {}

\* The handler that left cs was a resize event with a zero dimension.
DegenerateResize(cs) ==
    /\ cs # << >>
    /\ cs[1].op = "State::resize"
    /\ (cs[1].arg.width = 0 \/ cs[1].arg.height = 0)

\* C7: State::resize with a zero width or a zero height makes no call on the
\* surface or the device and leaves size, configuration and pipeline as they
\* were.
C7_DegenerateResizeIgnored ==
    [][ DegenerateResize(calls') =>
            /\ Len(calls') = 1
            /\ size' = size
            /\ config' = config
            /\ render_pipeline' = render_pipeline ]_vars

\* A resize to 0 x 600 has been handled after an accepted resize and a redraw.
C7_Witness ==
    /\ DegenerateResize(calls)
    /\ calls[1].arg = [width |-> 0, height |-> 600]
    /\ reconfigured /\ ticks > 0
    /\ size = [width |-> 2, height |-> 5]

\* The projection of the i-th particle of the store.
ProjectionOf(i) ==
    [position |-> << Particles[i].position.x, Particles[i].position.y >>,
     color |-> Particles[i].color]

\* data is the projection of the store as it is now.
IsProjection(data) ==
    /\ Len(data) = Len(Particles)
    /\ \A i \in DOMAIN Particles : data[i] = ProjectionOf(i)

\* C8: a redraw integrates, then projects, then uploads, then acquires a
\* frame and issues at most one draw, with no other call in between; the data
\* projected, uploaded and drawn with is the projection of the store after
\* the integration, and in every state the instance buffer holds the
\* projection of the store.
C8_FrameOrder ==
    /\ IsProjection(instance_buffer.contents)
    /\ Updated =>
        /\ Len(calls) >= 6
        /\ calls[2] = Call("simulation.update", LastDt)
        /\ calls[3].op = "simulation.get_instance_data"
        /\ IsProjection(calls[3].arg)
        /\ calls[4].op = "queue.write_buffer"
        /\ IsProjection(calls[4].arg)
        /\ calls[5].op = "State::render"
        /\ calls[6].op = "surface.get_current_texture"
        /\ Cardinality(CallsOf(calls, "simulation.update")) = 1
        /\ Cardinality(CallsOf(calls, "queue.write_buffer")) = 1
        /\ Cardinality(CallsOf(calls, "render_pass.draw")) <= 1
        /\ \A i \in CallsOf(calls, "render_pass.draw") :
            /\ i = 7
            /\ IsProjection(calls[i].arg.instance_buffer.contents)

\* The second redraw, with dt > 0, drew a frame.
C8_Witness ==
    /\ Updated /\ LastDt > 0 /\ ticks = 2
    /\ CallsOf(calls, "render_pass.draw") # {}

\* C9: once frame acquisition has failed with OutOfMemory the loop is set to
\* exit, and no event is handled afterwards: no update, no render.
C9_OutOfMemoryFatal ==
    /\ [](AcquiredAs(calls, "OutOfMemory") => control_flow = "Exit")
    /\ [][AcquiredAs(calls, "OutOfMemory") =>
            /\ ticks' = ticks
            /\ calls' = calls
            /\ simulation' = simulation
            /\ instance_buffer' = instance_buffer]_vars

\* The first redraw ran out of memory, with a tick still to go.
C9_Witness ==
    /\ AcquiredAs(calls, "OutOfMemory")
    /\ control_flow = "Exit"
    /\ ticks = 1

\* C10: a redraw whose frame acquisition fails with Timeout or Outdated
\* attempts the acquisition once, draws, submits and presents nothing, logs
\* the error, leaves size, configuration and pipeline as they were and leaves
\* the loop running.
C10_TransientSkipsFrame ==
    [][ \A e \in {"Timeout", "Outdated"} :
          (ticks' = ticks + 1 /\ AcquiredAs(calls', e)) =>
            /\ Cardinality(CallsOf(calls', "surface.get_current_texture")) = 1
            /\ Cardinality(CallsOf(calls', "State::render")) = 1
            /\ ~ Drew(calls')
            /\ CallsOf(calls', "surface.configure") = {}
            /\ CallsOf(calls', "device.create_render_pipeline") = {}
            /\ calls'[Len(calls')] = Call("eprintln", e)
            /\ size' = size
            /\ config' = config
            /\ render_pipeline' = render_pipeline
            /\ control_flow' = control_flow
            /\ control_flow' # "Exit" ]_vars

\* The first redraw, after an accepted resize, found the surface outdated.
C10_Witness ==
    /\ AcquiredAs(calls, "Outdated")
    /\ reconfigured /\ ticks = 1
    /\ control_flow = "Poll"

\* C11: get_instance_data returns one instance per particle, in store order,
\* the i-th carrying the position and the color of the i-th particle; a call
\* made now returns what the last call made by the program returned (no
\* update lies between them), and the store the program projected is the
\* store it holds afterwards.
C11_ProjectionPure ==
    LET data == ParticleSimulation_get_instance_data(simulation)
    IN  /\ DOMAIN data = DOMAIN Particles
        /\ \A i \in DOMAIN Particles :
            /\ data[i].position[1] = Particles[i].position.x
            /\ data[i].position[2] = Particles[i].position.y
            /\ data[i].color = Particles[i].color
        /\ \A k \in CallsOf(calls, "simulation.get_instance_data") :
            calls[k].arg = data
        /\ instance_buffer.contents = data

\* After a redraw with dt > 0 and a resize, the store holds two particles
\* that differ in position and in color.
C11_Witness ==
    /\ ticks > 0
    /\ calls # << >> /\ calls[1].op = "State::resize"
    /\ Particles[1].position.x # Particles[2].position.x
    /\ Particles[1].position.y # Particles[2].position.y
    /\ Particles[1].color # Particles[2].color

\* The particle of the worked scenario: position (10, 10), velocity (0, -100).
IsScenario(p) ==
    /\ p.position = [x |-> 1000, y |-> 1000]
    /\ p.velocity = [x |-> 0, y |-> -10000]

\* C12: a step first adds GRAVITY * dt to the velocity, then advances the
\* position with the velocity so updated, then applies the boundary response:
\* a particle a redraw leaves strictly between the walls of an axis has, on
\* that axis, velocity v + g * dt and position p + (v + g * dt) * dt.  For
\* position (10, 10), velocity (0, -100), dt = 1 and bounds 800 x 600 the
\* velocity after gravity is (0, -90.2), the tentative position (10, -80.2),
\* the top condition holds, and the redraw leaves position (10, 1.5) and
\* velocity (0, 63.14).
C12_StepOrder ==
    [][ ticks' = ticks + 1 =>
          \A i \in DOMAIN Particles :
            LET dt == calls'[1].arg
                p == Particles[i]
                q == simulation'.particles[i]
                vx == p.velocity.x + Mul(GRAVITY.x, dt)
                vy == p.velocity.y + Mul(GRAVITY.y, dt)
            IN  /\ (Radius < q.position.x /\ q.position.x < Width - Radius) =>
                    /\ q.velocity.x = vx
                    /\ q.position.x = p.position.x + Mul(vx, dt)
                /\ (Radius < q.position.y /\ q.position.y < Height - Radius) =>
                    /\ q.velocity.y = vy
                    /\ q.position.y = p.position.y + Mul(vy, dt)
                /\ (IsScenario(p) /\ dt = 100 /\ Width = 80000 /\ Height = 60000) =>
                    /\ ApplyGravity(p, dt).velocity = [x |-> 0, y |-> -9020]
                    /\ Advance(ApplyGravity(p, dt), dt).position
                          = [x |-> 1000, y |-> -8020]
                    /\ TopFires(Advance(ApplyGravity(p, dt), dt))
                    /\ q.position = [x |-> 1000, y |-> 150]
                    /\ q.velocity = [x |-> 0, y |-> 6314] ]_vars

\* The first redraw, with dt = 1 in the 800 x 600 window, has stepped the
\* scenario particle and a particle in free flight.
C12_Witness ==
    /\ ticks = 1 /\ Updated /\ LastDt = 100
    /\ Width = 80000 /\ Height = 60000
    /\ Particles[1].position = [x |-> 1000, y |-> 150]
    /\ Particles[1].velocity = [x |-> 0, y |-> 6314]
    /\ Particles[2].position = [x |-> 42000, y |-> 28480]
    /\ Particles[2].velocity = [x |-> 2000, y |-> -1520]

\* p is within the ranges of ParticleSimulation::new(width, height).
InInitialRanges(p, width, height) ==
    /\ 0 <= p.position.x /\ p.position.x < width
    /\ 0 <= p.position.y /\ p.position.y < height
    /\ 0 - INITIAL_VELOCITY_RANGE <= p.velocity.x
    /\ p.velocity.x <= INITIAL_VELOCITY_RANGE
    /\ 0 - INITIAL_VELOCITY_RANGE <= p.velocity.y
    /\ p.velocity.y <= INITIAL_VELOCITY_RANGE
    /\ \A k \in 1..3 : 30 <= p.color[k] /\ p.color[k] < 100
    /\ p.color[4] = 100

\* The state is the one State::new left.
JustBuilt == CallsOf(calls, "device.create_buffer_init") # {}

\* C13: every particle of the store ParticleSimulation::new(width, height)
\* built has position.x in [0, width), position.y in [0, height), velocity
\* components in [-INITIAL_VELOCITY_RANGE, INITIAL_VELOCITY_RANGE], R, G and
\* B in [0.3, 1.0) and alpha 1.0; and so has the particle the loop body makes
\* of any uniform sample, for the size of the window and for the small sizes.
C13_InitialRanges ==
    /\ JustBuilt =>
        \A i \in DOMAIN Particles : InInitialRanges(Particles[i], Width, Height)
    /\ JustBuilt =>
        \A ws \in {w \in WindowSizes : w.width > 0 /\ w.height > 0} \cup {size} :
            \A u \in 0..(Scale - 1) :
                InInitialRanges(
                    RandomParticle([ux |-> u, uy |-> u, uvx |-> u, uvy |-> u,
                                    ur |-> u, ug |-> u, ub |-> u],
                                   ToF32(ws.width), ToF32(ws.height)),
                    ToF32(ws.width), ToF32(ws.height))

\* State::new has built a store whose first particle comes from the lowest
\* and whose second comes from the highest samples.
C13_Witness ==
    /\ JustBuilt /\ ticks = 0
    /\ Particles[1].position = [x |-> 0, y |-> 0]
    /\ Particles[1].velocity.x = 0 - INITIAL_VELOCITY_RANGE
    /\ Particles[1].color[1] = 30
    /\ Particles[2].position.x = Width - (Width \div Scale)
    /\ Particles[2].velocity.y = INITIAL_VELOCITY_RANGE - 100
    /\ Particles[2].color[3] = 99

XPart(p) == << p.position.x, p.velocity.x >>
YPart(p) == << p.position.y, p.velocity.y >>

\* The particle with the x-state of px and the y-state of py.
Hybrid(px, py) ==
    [position |-> [x |-> px.position.x, y |-> py.position.y],
     velocity |-> [x |-> px.velocity.x, y |-> py.velocity.y],
     color |-> px.color]

\* A particle at rest in the middle of an 800 x 600 area: no boundary
\* condition holds for it in a step of at most a second.
Calm ==
    Particle_new([x |-> 40000, y |-> 30000], [x |-> 0, y |-> 0],
                 << 30, 30, 30, 100 >>)

\* v is w reflected and damped, to the rounding of one product.
Reflected(v, w) == 2 * Abs(Scale * v + BOUNCE_DAMPING * w) <= Scale

\* C14: the x-state a step leaves is the same whatever the particle's y-state
\* (that of the next particle of the store, of a particle at rest) and the
\* height are, and the y-state the same whatever the x-state and the
\* width are; a step that crosses a horizontal and a vertical boundary of an
\* area the particle fits in clamps both coordinates and reflects and damps
\* both velocity components, each as a step that crosses only that boundary
\* does.
C14_AxisIndependence ==
    \A i \in DOMAIN Particles : \A dt \in DtSet :
        LET p == Particles[i]
            q == Particle_update(p, dt, Width, Height)
            vx == p.velocity.x + Mul(GRAVITY.x, dt)
            vy == p.velocity.y + Mul(GRAVITY.y, dt)
            x == p.position.x + Mul(vx, dt)
            y == p.position.y + Mul(vy, dt)
            o == Particles[(i % Len(Particles)) + 1]
        IN  /\ \A ws \in {w \in WindowSizes : w.width > 0 /\ w.height > 0} :
                /\ XPart(Particle_update(Hybrid(p, o), dt, Width, ToF32(ws.height)))
                      = XPart(q)
                /\ YPart(Particle_update(Hybrid(o, p), dt, ToF32(ws.width), Height))
                      = YPart(q)
            /\ XPart(Particle_update(Hybrid(p, Calm), dt, Width,
                                     ToF32(RequestedSize.height))) = XPart(q)
            /\ YPart(Particle_update(Hybrid(Calm, p), dt,
                                     ToF32(RequestedSize.width), Height)) = YPart(q)
            /\ (Width >= PARTICLE_SIZE /\ Height >= PARTICLE_SIZE) =>
                /\ (x + Radius > Width /\ y + Radius > Height) =>
                    /\ q.position = [x |-> Width - Radius, y |-> Height - Radius]
                    /\ Reflected(q.velocity.x, vx) /\ Reflected(q.velocity.y, vy)
                /\ (x - Radius < 0 /\ y - Radius < 0) =>
                    /\ q.position = [x |-> Radius, y |-> Radius]
                    /\ Reflected(q.velocity.x, vx) /\ Reflected(q.velocity.y, vy)
                /\ (x + Radius > Width /\ y - Radius < 0) =>
                    /\ q.position = [x |-> Width - Radius, y |-> Radius]
                    /\ Reflected(q.velocity.x, vx) /\ Reflected(q.velocity.y, vy)
                /\ (x - Radius < 0 /\ y + Radius > Height) =>
                    /\ q.position = [x |-> Radius, y |-> Height - Radius]
                    /\ Reflected(q.velocity.x, vx) /\ Reflected(q.velocity.y, vy)

\* A redraw of a second has sent one particle through the top left corner of
\* the 800 x 600 area and another through the bottom right corner.
C14_Witness ==
    /\ Updated /\ LastDt = 100
    /\ Width = 80000 /\ Height = 60000
    /\ \E i \in DOMAIN Particles :
        /\ Particles[i].position = [x |-> Radius, y |-> Radius]
        /\ Particles[i].velocity.x > 0 /\ Particles[i].velocity.y > 0
    /\ \E i \in DOMAIN Particles :
        /\ Particles[i].position = [x |-> Width - Radius, y |-> Height - Radius]
        /\ Particles[i].velocity.x < 0 /\ Particles[i].velocity.y < 0

\* Dimensions tried on each axis: below, at and above PARTICLE_SIZE.
DimsTried == {2, 3, 4}

\* C15: within one step the bottom and the top response both fire only if
\* height < PARTICLE_SIZE (= 2 * radius), and the right and the left response
\* both fire only if width < PARTICLE_SIZE; with a dimension of at least
\* PARTICLE_SIZE the velocity component of that axis is left as gravity made
\* it or is reflected and damped once.
C15_OppositeBoundaries ==
    \A i \in DOMAIN Particles : \A dt \in DtSet :
        \A d \in DimsTried \cup {size.width, size.height} :
            LET p == Particles[i]
                m == Advance(ApplyGravity(p, dt), dt)
                q == Particle_update(p, dt, ToF32(d), ToF32(d))
                vx == p.velocity.x + Mul(GRAVITY.x, dt)
                vy == p.velocity.y + Mul(GRAVITY.y, dt)
            IN  /\ (BottomFires(m, ToF32(d)) /\ TopFires(BottomBoundary(m, ToF32(d))))
                    => ToF32(d) < PARTICLE_SIZE
                /\ (RightFires(m, ToF32(d)) /\ LeftFires(RightBoundary(m, ToF32(d))))
                    => ToF32(d) < PARTICLE_SIZE
                /\ ToF32(d) >= PARTICLE_SIZE =>
                    /\ q.velocity.y = vy \/ Reflected(q.velocity.y, vy)
                    /\ q.velocity.x = vx \/ Reflected(q.velocity.x, vx)

\* After a redraw the window was shrunk to 4 x 2: a step of a second makes
\* the bottom and the top response of a particle both fire, and only the
\* right response of that particle.
C15_Witness ==
    /\ ticks > 0 /\ reconfigured
    /\ size = [width |-> 4, height |-> 2]
    /\ \E i \in DOMAIN Particles :
        LET m == Advance(ApplyGravity(Particles[i], 100), 100)
        IN  /\ BottomFires(m, Height) /\ TopFires(BottomBoundary(m, Height))
            /\ RightFires(m, Width) /\ ~ LeftFires(RightBoundary(m, Width))
            /\ m.velocity.x # 0 /\ m.velocity.y # 0

\* self.size and self.config carry the same dimensions.
SizeAgrees == size.width = config.width /\ size.height = config.height

\* The handler that ran was a resize to a size with both dimensions non-zero.
AcceptedResize(cs) ==
    /\ cs # << >>
    /\ cs[1].op = "State::resize"
    /\ cs[1].arg.width > 0 /\ cs[1].arg.height > 0

\* C16: in every reachable state size equals (config.width, config.height);
\* an accepted resize sets both to its argument, a rejected resize and a
\* redraw (Lost recovery included) leave both alone, and the store a redraw
\* leaves is the integrator's result for the dimensions of the surface
\* configuration in force when the redraw began.
C16_SizeConfigAgreement ==
    /\ []SizeAgrees
    /\ [][ /\ AcceptedResize(calls') =>
                /\ size' = calls'[1].arg
                /\ config' = [config EXCEPT !.width = calls'[1].arg.width,
                                            !.height = calls'[1].arg.height]
           /\ DegenerateResize(calls') => size' = size /\ config' = config
           /\ ticks' = ticks + 1 =>
                /\ size' = size /\ config' = config
                /\ simulation' = ParticleSimulation_update(
                       simulation, calls'[1].arg,
                       ToF32(config.width), ToF32(config.height))
         ]_vars

\* A redraw ran in a surface configured 2 x 5 by a resize: every particle sits
\* at x = radius, where only an integrator given width 2 puts it.
C16_Witness ==
    /\ Updated /\ reconfigured
    /\ size = [width |-> 2, height |-> 5]
    /\ config.width = 2 /\ config.height = 5
    /\ \A i \in DOMAIN Particles :
        /\ Particles[i].position.x = Radius
        /\ Particles[i].position.y <= Height - Radius

\* C17: a redraw replaces each particle by Particle::update of the particle at
\* the same index, whatever the acquisition of the frame returns, and keeps
\* its color and the length of the store; every other step (resize accepted
\* or rejected, close) leaves the store as it is.
C17_ParticleFrame ==
    [][ /\ Len(simulation'.particles) = Len(simulation.particles)
        /\ \A i \in DOMAIN Particles :
            simulation'.particles[i].color = Particles[i].color
        /\ ticks' = ticks => simulation' = simulation
        /\ ticks' = ticks + 1 =>
            \A i \in DOMAIN Particles :
                simulation'.particles[i] =
                    Particle_update(Particles[i], calls'[1].arg, Width, Height)
      ]_vars

\* After a redraw an accepted resize shrank the window and left a particle
\* outside the new bounds on both axes.
C17_Witness ==
    /\ ticks > 0 /\ AcceptedResize(calls)
    /\ size = calls[1].arg
    /\ \E i \in DOMAIN Particles :
        /\ Particles[i].position.x + Radius > Width
        /\ Particles[i].position.y + Radius > Height
        /\ Particles[i].velocity.y # 0

====
